---- MODULE Spec2Model ----
(***************************************************************************)
(* Orchestration pipeline of src/main.py: the /chat dispatcher, the        *)
(* process-wide single-slot plan store last_plan_for_a, the keyword intent *)
(* classifier and the five prompt-chaining handlers.                       *)
(*                                                                         *)
(* Strings are sequences of tokens.  A token is one character of a user    *)
(* text, one literal segment of an f-string template (named after the      *)
(* source line it starts on) or one piece of a provider's reply.           *)
(* chat() is a sync FastAPI endpoint, so requests run on worker threads    *)
(* and interleave at every access to the global and around every blocking  *)
(* provider call.                                                          *)
(***************************************************************************)
EXTENDS Integers, Sequences, FiniteSets, TLC

\* Bounds of the model.
MaxRequests == 3        \* requests received over the life of the process
MaxTextLen == 4         \* length of the texts the classifier is run on
MaxLiveRequests == 2    \* requests received in the runs checked for progress

\* The two users of the shared process, each with one request in flight at a time
Callers == {"X", "Y"}

\* ------------------------------------------------------------------ data

\* Optional[str]
None == [some |-> FALSE, val |-> <<>>]
Some(s) == [some |-> TRUE, val |-> s]

\* Python's str() of an Optional[str] inside an f-string
Format(o) == IF o.some THEN o.val ELSE <<"None">>

\* Python's `t in s` on strings: t is a contiguous substring of s
Contains(s, t) ==
    \E i \in 0..(Len(s) - Len(t)) : SubSeq(s, i + 1, i + Len(t)) = t

ModeType == {"A", "B", "C", "D"}

\* Mode tags a client can put on the wire; "E" stands for any tag outside ModeType
WireModes == ModeType \cup {"E"}

\* bo-go-seo, bo-go seo, bo-go-seo-reul, bo-go-seo-ro, jak-seong-hae,
\* jak-seong-hae-jwo, jak-seong-hae jwo ("sp" is the space character)
REPORT_KEYWORDS == <<
    <<"bo", "go", "seo">>,
    <<"bo", "go", "sp", "seo">>,
    <<"bo", "go", "seo", "reul">>,
    <<"bo", "go", "seo", "ro">>,
    <<"jak", "seong", "hae">>,
    <<"jak", "seong", "hae", "jwo">>,
    <<"jak", "seong", "hae", "sp", "jwo">> >>

\* Mutant: the text must be a keyword, not merely contain one
is_report_request_Equals(text) ==
    \E i \in 1..Len(REPORT_KEYWORDS) : text = REPORT_KEYWORDS[i]

is_report_request(text) ==
    \E i \in 1..Len(REPORT_KEYWORDS) : Contains(text, REPORT_KEYWORDS[i])

\* User inputs: one without a keyword, one asking for the report
TextTopic == <<"tam", "gu">>
TextReport == <<"i", "beon", "sp", "jak", "seong", "hae", "jwo">>
Texts == {TextTopic, TextReport}

\* Provider failures (network, auth, quota): the exception's str()
Errors == {"timeout", "quota"}

\* The reply a provider gives to the k-th call of request id: opaque text,
\* different for every call
Out(id, k) == <<"out", ToString(id), ToString(k)>>

GUIDANCE == <<"L658", "L659", "L660", "L661", "L662", "L663">>

\* ---------------------------------------------------------------- state

VARIABLES
    last_plan_for_a,    \* the global plan store
    pc,                 \* per caller: where its current request is in chat()
    id,                 \* per caller: arrival number of its current request
    mode, text,         \* per caller: req.mode, req.user_input
    branch,             \* per caller: the handler chat() selected
    passed_plan,        \* per caller: previous_answer handed to handle_mode_a_report
    replies,            \* per caller: replies bound to the handler's locals
    answer,             \* per caller: chat()'s local answer (and plan)
    calls,              \* per caller: provider calls made, as a mock records them
    resp,               \* per caller: the HTTP response
    issuedBy,           \* history: caller of each request, in arrival order
    writes              \* history: requests whose store write executed, in order

reqvars == <<id, mode, text, branch, passed_plan, replies, answer, calls, resp>>
vars == <<last_plan_for_a, pc, reqvars, issuedBy, writes>>

\* ------------------------------------------------------------- handlers
\* Each handler is given as its k-th instruction: the provider call it makes
\* k-th, with the prompt built from user_input and the earlier replies, or
\* the value it returns once all calls are made.

Call(provider, prompt) == [op |-> "call", provider |-> provider, arg |-> prompt]
Ret(value) == [op |-> "return", provider |-> "", arg |-> value]

\* Mutant: the plan handler returns the candidate directions, not the plan
handle_mode_a_plan_ReturnsIdeas(k, user_input, outs) ==
    CASE k = 1 -> Call("call_perplexity",
                       <<"L350">> \o user_input \o <<"L353">>)
      [] k = 2 -> Call("call_gpt",
                       <<"L359">> \o user_input \o <<"L362">> \o outs[1]
                           \o <<"L365">>)
      [] k = 3 -> Call("call_gemini",
                       <<"L377">> \o user_input \o <<"L382">> \o outs[1]
                           \o <<"L385">> \o outs[2] \o <<"L388">>)
      [] OTHER -> Ret(outs[2])

handle_mode_a_plan(k, user_input, outs) ==
    CASE k = 1 -> Call("call_perplexity",
                       <<"L350">> \o user_input \o <<"L353">>)
      [] k = 2 -> Call("call_gpt",
                       <<"L359">> \o user_input \o <<"L362">> \o outs[1]
                           \o <<"L365">>)
      [] k = 3 -> Call("call_gemini",
                       <<"L377">> \o user_input \o <<"L382">> \o outs[1]
                           \o <<"L385">> \o outs[2] \o <<"L388">>)
      [] OTHER -> Ret(outs[3])

\* Mutant: the outline prompt leaves the stored plan out
handle_mode_a_report_NoPlan(k, user_input, previous_answer, outs) ==
    CASE k = 1 -> Call("call_gemini",
                       <<"L418">> \o <<"L423">> \o user_input \o <<"L426">>)
      [] k = 2 -> Call("call_claude",
                       <<"L444">> \o outs[1] \o <<"L449">>)
      [] OTHER -> Ret(outs[2])

handle_mode_a_report(k, user_input, previous_answer, outs) ==
    CASE k = 1 -> Call("call_gemini",
                       <<"L418">> \o Format(previous_answer) \o <<"L423">>
                           \o user_input \o <<"L426">>)
      [] k = 2 -> Call("call_claude",
                       <<"L444">> \o outs[1] \o <<"L449">>)
      [] OTHER -> Ret(outs[2])

\* Mutant: the essay handler's first prompt reads the plan store
handle_mode_b_essay_ReadsPlan(k, user_input, outs) ==
    CASE k = 1 -> Call("call_perplexity",
                       <<"L472">> \o user_input \o Format(last_plan_for_a)
                           \o <<"L474">>)
      [] k = 2 -> Call("call_gpt",
                       <<"L480">> \o user_input \o <<"L485">> \o outs[1]
                           \o <<"L488">>)
      [] k = 3 -> Call("call_gemini",
                       <<"L500">> \o outs[2] \o <<"L505">>)
      [] k = 4 -> Call("call_claude",
                       <<"L517">> \o outs[3] \o <<"L522">>)
      [] OTHER -> Ret(outs[4])

\* Mutant: the essay handler returns the checked draft, skipping the polish
handle_mode_b_essay_SkipsPolish(k, user_input, outs) ==
    CASE k = 1 -> Call("call_perplexity",
                       <<"L472">> \o user_input \o <<"L474">>)
      [] k = 2 -> Call("call_gpt",
                       <<"L480">> \o user_input \o <<"L485">> \o outs[1]
                           \o <<"L488">>)
      [] k = 3 -> Call("call_gemini",
                       <<"L500">> \o outs[2] \o <<"L505">>)
      [] OTHER -> Ret(outs[3])

handle_mode_b_essay(k, user_input, outs) ==
    CASE k = 1 -> Call("call_perplexity",
                       <<"L472">> \o user_input \o <<"L474">>)
      [] k = 2 -> Call("call_gpt",
                       <<"L480">> \o user_input \o <<"L485">> \o outs[1]
                           \o <<"L488">>)
      [] k = 3 -> Call("call_gemini",
                       <<"L500">> \o outs[2] \o <<"L505">>)
      [] k = 4 -> Call("call_claude",
                       <<"L517">> \o outs[3] \o <<"L522">>)
      [] OTHER -> Ret(outs[4])

\* Mutant: the selection prompt of the ideas handler leaves the request out
handle_mode_c_ideas_DropsInput(k, user_input, outs) ==
    CASE k = 1 -> Call("call_gpt",
                       <<"L543">> \o user_input \o <<"L548">>)
      [] k = 2 -> Call("call_gemini",
                       <<"L556">> \o <<"L561">> \o outs[1] \o <<"L564">>)
      [] k = 3 -> Call("call_claude",
                       <<"L583">> \o outs[2] \o <<"L587">>)
      [] OTHER -> Ret(outs[3])

handle_mode_c_ideas(k, user_input, outs) ==
    CASE k = 1 -> Call("call_gpt",
                       <<"L543">> \o user_input \o <<"L548">>)
      [] k = 2 -> Call("call_gemini",
                       <<"L556">> \o user_input \o <<"L561">> \o outs[1]
                           \o <<"L564">>)
      [] k = 3 -> Call("call_claude",
                       <<"L583">> \o outs[2] \o <<"L587">>)
      [] OTHER -> Ret(outs[3])

\* Mutant: the research handler's second prompt repeats the request and
\* leaves the search result out
handle_mode_d_research_RepeatsInput(k, user_input, outs) ==
    CASE k = 1 -> Call("call_perplexity",
                       <<"L605">> \o user_input \o <<"L610">>)
      [] k = 2 -> Call("call_gemini",
                       <<"L616">> \o user_input \o <<"L621">>)
      [] OTHER -> Ret(outs[2])

\* Mutant: the research handler's second prompt reads the plan store
handle_mode_d_research_ReadsPlan(k, user_input, outs) ==
    CASE k = 1 -> Call("call_perplexity",
                       <<"L605">> \o user_input \o <<"L610">>)
      [] k = 2 -> Call("call_gemini",
                       <<"L616">> \o outs[1] \o Format(last_plan_for_a)
                           \o <<"L621">>)
      [] OTHER -> Ret(outs[2])

handle_mode_d_research(k, user_input, outs) ==
    CASE k = 1 -> Call("call_perplexity",
                       <<"L605">> \o user_input \o <<"L610">>)
      [] k = 2 -> Call("call_gemini",
                       <<"L616">> \o outs[1] \o <<"L621">>)
      [] OTHER -> Ret(outs[2])

\* ----------------------------------------------------------- initial state

NoResp == [status |-> 0, body |-> <<>>]

InFlight(c) == pc[c] \notin {"idle", "done"}

Init ==
    /\ last_plan_for_a = None
    /\ pc = [c \in Callers |-> "idle"]
    /\ id = [c \in Callers |-> 0]
    /\ mode = [c \in Callers |-> "A"]
    /\ text = [c \in Callers |-> <<>>]
    /\ branch = [c \in Callers |-> "none"]
    /\ passed_plan = [c \in Callers |-> None]
    /\ replies = [c \in Callers |-> <<>>]
    /\ answer = [c \in Callers |-> None]
    /\ calls = [c \in Callers |-> <<>>]
    /\ resp = [c \in Callers |-> NoResp]
    /\ issuedBy = <<>>
    /\ writes = <<>>

\* The instruction the selected handler executes next
Instr(c) ==
    LET k == Len(replies[c]) + 1 IN
    CASE branch[c] = "plan" -> handle_mode_a_plan(k, text[c], replies[c])
      [] branch[c] = "report" ->
            handle_mode_a_report(k, text[c], passed_plan[c], replies[c])
      [] branch[c] = "B" -> handle_mode_b_essay(k, text[c], replies[c])
      [] branch[c] = "C" -> handle_mode_c_ideas(k, text[c], replies[c])
      [] OTHER -> handle_mode_d_research(k, text[c], replies[c])

\* -------------------------------------------------------------- actions

\* Mutant: the mode field is a plain str, so any tag reaches chat()
Receive_NoValidation(c, m, t) ==
    /\ ~InFlight(c)
    /\ Len(issuedBy) < MaxRequests
    /\ issuedBy' = Append(issuedBy, c)
    /\ id' = [id EXCEPT ![c] = Len(issuedBy) + 1]
    /\ mode' = [mode EXCEPT ![c] = m]
    /\ text' = [text EXCEPT ![c] = t]
    /\ branch' = [branch EXCEPT ![c] = "none"]
    /\ passed_plan' = [passed_plan EXCEPT ![c] = None]
    /\ replies' = [replies EXCEPT ![c] = <<>>]
    /\ answer' = [answer EXCEPT ![c] = None]
    /\ calls' = [calls EXCEPT ![c] = <<>>]
    /\ pc' = [pc EXCEPT ![c] = "chat"]
    /\ resp' = [resp EXCEPT ![c] = NoResp]
    /\ UNCHANGED <<last_plan_for_a, writes>>

\* A caller posts {mode, user_input}; pydantic parses it into a ChatRequest
\* and rejects a mode outside ModeType before chat() runs.
Receive(c, m, t) ==
    /\ ~InFlight(c)
    /\ Len(issuedBy) < MaxRequests
    /\ issuedBy' = Append(issuedBy, c)
    /\ id' = [id EXCEPT ![c] = Len(issuedBy) + 1]
    /\ mode' = [mode EXCEPT ![c] = m]
    /\ text' = [text EXCEPT ![c] = t]
    /\ branch' = [branch EXCEPT ![c] = "none"]
    /\ passed_plan' = [passed_plan EXCEPT ![c] = None]
    /\ replies' = [replies EXCEPT ![c] = <<>>]
    /\ answer' = [answer EXCEPT ![c] = None]
    /\ calls' = [calls EXCEPT ![c] = <<>>]
    /\ IF m \in ModeType
       THEN /\ pc' = [pc EXCEPT ![c] = "chat"]
            /\ resp' = [resp EXCEPT ![c] = NoResp]
       ELSE /\ pc' = [pc EXCEPT ![c] = "done"]
            /\ resp' = [resp EXCEPT ![c] = [status |-> 422, body |-> <<"mode">>]]
    /\ UNCHANGED <<last_plan_for_a, writes>>

\* chat(), lines 649-680: the if/elif chain on req.mode and want_report
Dispatch(c) ==
    /\ pc[c] = "chat"
    /\ IF mode[c] = "A"
       THEN IF is_report_request(text[c])
            THEN /\ pc' = [pc EXCEPT ![c] = "a_guard"]
                 /\ UNCHANGED branch
            ELSE /\ pc' = [pc EXCEPT ![c] = "run"]
                 /\ branch' = [branch EXCEPT ![c] = "plan"]
       ELSE /\ pc' = [pc EXCEPT ![c] = "run"]
            /\ branch' = [branch EXCEPT ![c] =
                    IF mode[c] = "B" THEN "B" ELSE IF mode[c] = "C" THEN "C" ELSE "D"]
    /\ UNCHANGED <<last_plan_for_a, id, mode, text, passed_plan, replies,
                   answer, calls, resp, issuedBy, writes>>

\* Mutant: the Empty check is inverted
AGuard_Inverted(c) ==
    /\ pc[c] = "a_guard"
    /\ IF last_plan_for_a # None
       THEN /\ answer' = [answer EXCEPT ![c] = Some(GUIDANCE)]
            /\ branch' = [branch EXCEPT ![c] = "guidance"]
            /\ pc' = [pc EXCEPT ![c] = "return"]
       ELSE /\ pc' = [pc EXCEPT ![c] = "a_arg"]
            /\ UNCHANGED <<answer, branch>>
    /\ UNCHANGED <<last_plan_for_a, id, mode, text, passed_plan, replies,
                   calls, resp, issuedBy, writes>>

\* Mutant: the Empty check is missing
AGuard_NoCheck(c) ==
    /\ pc[c] = "a_guard"
    /\ pc' = [pc EXCEPT ![c] = "a_arg"]
    /\ UNCHANGED <<last_plan_for_a, reqvars, issuedBy, writes>>

\* chat(), line 656: first read of the global
AGuard(c) ==
    /\ pc[c] = "a_guard"
    /\ IF last_plan_for_a = None
       THEN /\ answer' = [answer EXCEPT ![c] = Some(GUIDANCE)]
            /\ branch' = [branch EXCEPT ![c] = "guidance"]
            /\ pc' = [pc EXCEPT ![c] = "return"]
       ELSE /\ pc' = [pc EXCEPT ![c] = "a_arg"]
            /\ UNCHANGED <<answer, branch>>
    /\ UNCHANGED <<last_plan_for_a, id, mode, text, passed_plan, replies,
                   calls, resp, issuedBy, writes>>

\* Mutant: the stored plan is consumed (cleared) when it is read
AReadArg_Consumes(c) ==
    /\ pc[c] = "a_arg"
    /\ passed_plan' = [passed_plan EXCEPT ![c] = last_plan_for_a]
    /\ last_plan_for_a' = None
    /\ branch' = [branch EXCEPT ![c] = "report"]
    /\ pc' = [pc EXCEPT ![c] = "run"]
    /\ UNCHANGED <<id, mode, text, replies, answer, calls, resp, issuedBy, writes>>

\* Mutant: the request text is handed over in place of the stored plan
AReadArg_PassesInput(c) ==
    /\ pc[c] = "a_arg"
    /\ passed_plan' = [passed_plan EXCEPT ![c] = Some(text[c])]
    /\ branch' = [branch EXCEPT ![c] = "report"]
    /\ pc' = [pc EXCEPT ![c] = "run"]
    /\ UNCHANGED <<last_plan_for_a, id, mode, text, replies, answer, calls, resp,
                   issuedBy, writes>>

\* chat(), line 666: second read of the global, as the call's argument
AReadArg(c) ==
    /\ pc[c] = "a_arg"
    /\ passed_plan' = [passed_plan EXCEPT ![c] = last_plan_for_a]
    /\ branch' = [branch EXCEPT ![c] = "report"]
    /\ pc' = [pc EXCEPT ![c] = "run"]
    /\ UNCHANGED <<last_plan_for_a, id, mode, text, replies, answer, calls, resp,
                   issuedBy, writes>>

\* Mutant: provider calls are made under one process-wide lock
StartCall_Serialized(c) ==
    /\ pc[c] = "run"
    /\ \A d \in Callers \ {c} : pc[d] # "wait"
    /\ Instr(c).op = "call"
    /\ calls' = [calls EXCEPT ![c] =
            Append(@, [provider |-> Instr(c).provider, prompt |-> Instr(c).arg,
                       result |-> "pending"])]
    /\ pc' = [pc EXCEPT ![c] = "wait"]
    /\ UNCHANGED <<last_plan_for_a, id, mode, text, branch, passed_plan,
                   replies, answer, resp, issuedBy, writes>>

\* A handler builds its next prompt and sends it to the provider
StartCall(c) ==
    /\ pc[c] = "run"
    /\ Instr(c).op = "call"
    /\ calls' = [calls EXCEPT ![c] =
            Append(@, [provider |-> Instr(c).provider, prompt |-> Instr(c).arg,
                       result |-> "pending"])]
    /\ pc' = [pc EXCEPT ![c] = "wait"]
    /\ UNCHANGED <<last_plan_for_a, id, mode, text, branch, passed_plan,
                   replies, answer, resp, issuedBy, writes>>

\* Mutant: the plan handler saves every reply to the store as it arrives
ProviderReturn_SavesEarly(c) ==
    /\ pc[c] = "wait"
    /\ replies' = [replies EXCEPT ![c] = Append(@, Out(id[c], Len(calls[c])))]
    /\ calls' = [calls EXCEPT ![c][Len(calls[c])].result = "ok"]
    /\ pc' = [pc EXCEPT ![c] = "run"]
    /\ last_plan_for_a' = IF branch[c] = "plan"
                          THEN Some(Out(id[c], Len(calls[c])))
                          ELSE last_plan_for_a
    /\ UNCHANGED <<id, mode, text, branch, passed_plan, answer, resp,
                   issuedBy, writes>>

\* The provider replies; the handler binds the reply to its local
ProviderReturn(c) ==
    /\ pc[c] = "wait"
    /\ replies' = [replies EXCEPT ![c] = Append(@, Out(id[c], Len(calls[c])))]
    /\ calls' = [calls EXCEPT ![c][Len(calls[c])].result = "ok"]
    /\ pc' = [pc EXCEPT ![c] = "run"]
    /\ UNCHANGED <<last_plan_for_a, id, mode, text, branch, passed_plan,
                   answer, resp, issuedBy, writes>>

\* Mutant: a failed call falls back to the previous stage's reply as the answer
ProviderRaise_Partial(c, e) ==
    /\ pc[c] = "wait"
    /\ calls' = [calls EXCEPT ![c][Len(calls[c])].result = e]
    /\ resp' = [resp EXCEPT ![c] =
            IF replies[c] = <<>>
            THEN [status |-> 500, body |-> <<"L689">> \o <<e>>]
            ELSE [status |-> 200, body |-> replies[c][Len(replies[c])]]]
    /\ pc' = [pc EXCEPT ![c] = "done"]
    /\ UNCHANGED <<last_plan_for_a, id, mode, text, branch, passed_plan,
                   replies, answer, issuedBy, writes>>

\* The provider call raises; no handler catches, chat()'s except clause
\* (lines 684-690) turns the exception into the 500 response
ProviderRaise(c, e) ==
    /\ pc[c] = "wait"
    /\ calls' = [calls EXCEPT ![c][Len(calls[c])].result = e]
    /\ resp' = [resp EXCEPT ![c] = [status |-> 500, body |-> <<"L689">> \o <<e>>]]
    /\ pc' = [pc EXCEPT ![c] = "done"]
    /\ UNCHANGED <<last_plan_for_a, id, mode, text, branch, passed_plan,
                   replies, answer, issuedBy, writes>>

\* Mutant: the result of every handler is saved to the store
HandlerReturn_AlwaysSaves(c) ==
    /\ pc[c] = "run"
    /\ Instr(c).op = "return"
    /\ answer' = [answer EXCEPT ![c] = Some(Instr(c).arg)]
    /\ pc' = [pc EXCEPT ![c] = "a_write"]
    /\ UNCHANGED <<last_plan_for_a, id, mode, text, branch, passed_plan,
                   replies, calls, resp, issuedBy, writes>>

\* The handler returns its last local to chat() (lines 666, 669, 674-680)
HandlerReturn(c) ==
    /\ pc[c] = "run"
    /\ Instr(c).op = "return"
    /\ answer' = [answer EXCEPT ![c] = Some(Instr(c).arg)]
    /\ pc' = [pc EXCEPT ![c] = IF branch[c] = "plan" THEN "a_write" ELSE "return"]
    /\ UNCHANGED <<last_plan_for_a, id, mode, text, branch, passed_plan,
                   replies, calls, resp, issuedBy, writes>>

\* Mutant: the store is written only while it is Empty (first writer wins)
APlanWrite_FirstWins(c) ==
    /\ pc[c] = "a_write"
    /\ last_plan_for_a' = IF last_plan_for_a = None THEN answer[c]
                          ELSE last_plan_for_a
    /\ writes' = Append(writes, id[c])
    /\ pc' = [pc EXCEPT ![c] = "return"]
    /\ UNCHANGED <<reqvars, issuedBy>>

\* chat(), line 670: last_plan_for_a = plan
APlanWrite(c) ==
    /\ pc[c] = "a_write"
    /\ last_plan_for_a' = answer[c]
    /\ writes' = Append(writes, id[c])
    /\ pc' = [pc EXCEPT ![c] = "return"]
    /\ UNCHANGED <<reqvars, issuedBy>>

\* chat(), line 682: return ChatResponse(answer=answer)
Return(c) ==
    /\ pc[c] = "return"
    /\ resp' = [resp EXCEPT ![c] = [status |-> 200, body |-> answer[c].val]]
    /\ pc' = [pc EXCEPT ![c] = "done"]
    /\ UNCHANGED <<last_plan_for_a, id, mode, text, branch, passed_plan,
                   replies, answer, calls, issuedBy, writes>>

Step(c) ==
    \/ Dispatch(c)
    \/ AGuard(c)
    \/ AReadArg(c)
    \/ StartCall(c)
    \/ ProviderReturn(c)
    \/ \E e \in Errors : ProviderRaise(c, e)
    \/ HandlerReturn(c)
    \/ APlanWrite(c)
    \/ Return(c)

Next ==
    \E c \in Callers :
        \/ \E m \in WireModes, t \in Texts : Receive(c, m, t)
        \/ Step(c)

Spec == Init /\ [][Next]_vars

\* One request at a time: a request is received only when none is in flight
NextSeq ==
    \E c \in Callers :
        \/ \E m \in WireModes, t \in Texts :
              /\ \A d \in Callers : ~InFlight(d)
              /\ Receive(c, m, t)
        \/ Step(c)

SpecSeq == Init /\ [][NextSeq]_vars

\* ---------------------------------------------------- the classifier alone
\* chat() entered with a mode-A request of caller X carrying any text over the
\* keywords' characters and one unrelated character, while the store is
\* Empty or holds the plan of an earlier request of caller Y.

Alphabet == {"bo", "go", "seo", "sp", "reul", "ro", "jak", "seong", "hae",
             "jwo", "x"}

ClassifierTexts == UNION {[1..n -> Alphabet] : n \in 0..MaxTextLen}

\* The k-th entry of the call log of a plan run that succeeded
PlanCall(k, user_input, outs) ==
    [provider |-> handle_mode_a_plan(k, user_input, outs).provider,
     prompt |-> handle_mode_a_plan(k, user_input, outs).arg,
     result |-> "ok"]

InitClassify ==
    \E t \in ClassifierTexts, holding \in BOOLEAN :
        LET n == IF holding THEN 2 ELSE 1
            outs == <<Out(1, 1), Out(1, 2), Out(1, 3)>>
        IN
        /\ last_plan_for_a = IF holding THEN Some(Out(1, 3)) ELSE None
        /\ issuedBy = IF holding THEN <<"Y", "X">> ELSE <<"X">>
        /\ writes = IF holding THEN <<1>> ELSE <<>>
        /\ pc = [c \in Callers |->
                    IF c = "X" THEN "chat" ELSE IF holding THEN "done" ELSE "idle"]
        /\ id = [c \in Callers |-> IF c = "X" THEN n ELSE n - 1]
        /\ mode = [c \in Callers |-> "A"]
        /\ text = [c \in Callers |->
                    IF c = "X" THEN t ELSE IF holding THEN TextTopic ELSE <<>>]
        /\ branch = [c \in Callers |->
                    IF c = "Y" /\ holding THEN "plan" ELSE "none"]
        /\ passed_plan = [c \in Callers |-> None]
        /\ replies = [c \in Callers |-> IF c = "Y" /\ holding THEN outs ELSE <<>>]
        /\ answer = [c \in Callers |->
                    IF c = "Y" /\ holding THEN Some(Out(1, 3)) ELSE None]
        /\ calls = [c \in Callers |->
                    IF c = "Y" /\ holding
                    THEN [k \in 1..3 |-> PlanCall(k, TextTopic, outs)]
                    ELSE <<>>]
        /\ resp = [c \in Callers |->
                    IF c = "Y" /\ holding
                    THEN [status |-> 200, body |-> Out(1, 3)] ELSE NoResp]

NextClassify == \E c \in Callers : Dispatch(c)

SpecClassify == InitClassify /\ [][NextClassify]_vars

\* ------------------------------------------------ deterministic providers
\* Providers that are functions of their prompt, as mocks are: the reply
\* names the provider and repeats the prompt, so that different prompts get
\* different replies.

Reply(provider, prompt) == <<"re", provider>> \o prompt

ProviderReturnDet(c) ==
    /\ pc[c] = "wait"
    /\ replies' = [replies EXCEPT ![c] =
            Append(@, Reply(calls[c][Len(calls[c])].provider,
                            calls[c][Len(calls[c])].prompt))]
    /\ calls' = [calls EXCEPT ![c][Len(calls[c])].result = "ok"]
    /\ pc' = [pc EXCEPT ![c] = "run"]
    /\ UNCHANGED <<last_plan_for_a, id, mode, text, branch, passed_plan,
                   answer, resp, issuedBy, writes>>

NextDet ==
    \E c \in Callers :
        \/ \E m \in WireModes, t \in Texts : Receive(c, m, t)
        \/ Dispatch(c)
        \/ AGuard(c)
        \/ AReadArg(c)
        \/ StartCall(c)
        \/ ProviderReturnDet(c)
        \/ \E e \in Errors : ProviderRaise(c, e)
        \/ HandlerReturn(c)
        \/ APlanWrite(c)
        \/ Return(c)

SpecDet == Init /\ [][NextDet]_vars

\* ------------------------------------------------------------- scheduling
\* The steps a request's worker thread takes by itself.  The thread pool
\* runs every thread that can run, so these are weakly fair; the provider's
\* reply is not: nothing in chat() bounds the time a call takes.

Local(c) ==
    \/ Dispatch(c)
    \/ AGuard(c)
    \/ AReadArg(c)
    \/ StartCall(c)
    \/ HandlerReturn(c)
    \/ APlanWrite(c)
    \/ Return(c)

NextLive ==
    \E c \in Callers :
        \/ \E m \in WireModes, t \in Texts :
              /\ Len(issuedBy) < MaxLiveRequests
              /\ Receive(c, m, t)
        \/ Step(c)

SpecLive == Init /\ [][NextLive]_vars /\ \A c \in Callers : WF_vars(Local(c))

\* --------------------------------------------------------------- claims

Latest(c) == id[c] = Len(issuedBy)
Providers(c) == [k \in 1..Len(calls[c]) |-> calls[c][k].provider]
AllOk(c) == \A k \in 1..Len(calls[c]) : calls[c][k].result = "ok"
Moved(c) == pc'[c] # pc[c]

\* C1: a mode-A request whose text asks for the report, handled while the
\* plan store is Empty, is answered with exactly the fixed guidance message:
\* it makes no provider call, ends as a normal (200) answer and none of its
\* steps writes the store.
C1_GuidanceWithoutCalls ==
    [][\A c \in Callers :
        /\ (pc[c] = "a_guard" /\ Moved(c) /\ mode[c] = "A"
                /\ is_report_request(text[c]) /\ last_plan_for_a = None)
            => /\ pc'[c] = "return"
               /\ branch'[c] = "guidance"
               /\ calls'[c] = <<>>
               /\ last_plan_for_a' = None
        /\ (branch[c] = "guidance" /\ Moved(c) /\ InFlight(c))
            => /\ pc'[c] = "done"
               /\ resp'[c] = [status |-> 200, body |-> GUIDANCE]
               /\ calls'[c] = <<>>
               /\ last_plan_for_a' = last_plan_for_a]_vars

C1_Witness ==
    \E c \in Callers :
        /\ pc[c] = "done" /\ mode[c] = "A" /\ is_report_request(text[c])
        /\ resp[c].body = GUIDANCE
        /\ last_plan_for_a = None

\* C2: a mode-A request whose text the classifier rejects, run alone with all
\* providers succeeding, makes exactly the calls search, reasoning, synthesis
\* in that order, leaves the plan store holding the synthesis reply and
\* returns that same reply, whatever the store held before.
C2_PlanBranch ==
    \A c \in Callers :
        (/\ pc[c] = "done" /\ Latest(c)
         /\ mode[c] = "A" /\ ~is_report_request(text[c])
         /\ AllOk(c))
        => /\ Providers(c) = <<"call_perplexity", "call_gpt", "call_gemini">>
           /\ resp[c] = [status |-> 200, body |-> Out(id[c], 3)]
           /\ last_plan_for_a = Some(Out(id[c], 3))

C2_Witness ==
    \E c \in Callers :
        /\ pc[c] = "done" /\ Latest(c) /\ branch[c] = "plan"
        /\ resp[c].status = 200
        /\ Len(writes) = 2

\* C3: a mode-A request asking for the report while the store holds X, run
\* alone with all providers succeeding, makes exactly the calls synthesis,
\* long-form in that order; the synthesis prompt contains X and the request
\* text; the answer is the long-form reply; no step of it changes the store.
C3_ContinueBranch ==
    [][\A c \in Callers :
        (/\ InFlight(c) /\ Moved(c)
         /\ mode[c] = "A" /\ is_report_request(text[c])
         /\ last_plan_for_a # None)
        => /\ last_plan_for_a' = last_plan_for_a
           /\ (pc'[c] = "done" /\ AllOk(c)')
                => /\ Providers(c)' = <<"call_gemini", "call_claude">>
                   /\ Contains(calls'[c][1].prompt, last_plan_for_a.val)
                   /\ Contains(calls'[c][1].prompt, text[c])
                   /\ resp'[c] = [status |-> 200, body |-> Out(id[c], 2)]]_vars

C3_Witness ==
    \E c \in Callers :
        /\ pc[c] = "done" /\ branch[c] = "report" /\ resp[c].status = 200
        /\ Contains(calls[c][1].prompt, last_plan_for_a.val)

\* C4: the plan store starts Empty; once it holds a value it never becomes
\* Empty again; its value changes only in the step that completes a
\* plan-pipeline run (all three calls succeeded), which stores that run's
\* synthesis reply; no step of a continue-pipeline run changes it.
C4_StoreNeverEmptied ==
    /\ last_plan_for_a = None
    /\ [][/\ (last_plan_for_a # None => last_plan_for_a' # None)
          /\ (last_plan_for_a' # last_plan_for_a
                => \E c \in Callers :
                      /\ branch[c] = "plan" /\ pc[c] = "a_write" /\ Moved(c)
                      /\ Len(calls[c]) = 3 /\ AllOk(c)
                      /\ last_plan_for_a' = Some(Out(id[c], 3)))
          /\ \A c \in Callers :
                (mode[c] = "A" /\ is_report_request(text[c]) /\ Moved(c)
                     /\ InFlight(c))
                => last_plan_for_a' = last_plan_for_a]_vars

\* The store was written, read by a continue run and overwritten since
C4_Witness ==
    \E c \in Callers :
        /\ branch[c] = "report" /\ pc[c] = "done" /\ resp[c].status = 200
        /\ passed_plan[c] # None
        /\ last_plan_for_a # None
        /\ last_plan_for_a # passed_plan[c]

\* The formatted value of the plan store occurs nowhere in prompt p of caller
\* c: neither "None" nor a reply given to another request
NoForeignText(p, c) ==
    \A i \in 1..Len(p) :
        /\ p[i] # "None"
        /\ p[i] = "out" => p[i + 1] = ToString(id[c])

\* C5: a request in mode B, C or D neither writes nor reads the plan store:
\* none of its steps, successful or failing, changes the store, and none of
\* its prompts carries the stored value.
C5_OtherModesIgnoreStore ==
    [][\A c \in Callers :
        (mode[c] \in {"B", "C", "D"} /\ InFlight(c) /\ Moved(c))
        => /\ last_plan_for_a' = last_plan_for_a
           /\ passed_plan'[c] = None
           /\ \A k \in 1..Len(calls'[c]) :
                 NoForeignText(calls'[c][k].prompt, c)]_vars

C5_Witness ==
    \E c, d \in Callers :
        /\ mode[c] \in {"B", "C", "D"} /\ pc[c] = "done" /\ resp[c].status = 200
        /\ mode[d] = "D" /\ pc[d] = "done" /\ resp[d].status = 500
        /\ Len(calls[d]) = 2
        /\ last_plan_for_a # None

\* The fixed order of provider calls of the modes without memory
Order(m) ==
    CASE m = "B" -> <<"call_perplexity", "call_gpt", "call_gemini", "call_claude">>
      [] m = "C" -> <<"call_gpt", "call_gemini", "call_claude">>
      [] OTHER -> <<"call_perplexity", "call_gemini">>

\* C6: in modes B, C and D the provider calls are made one after another in
\* the fixed order of the mode (a call is made only when every earlier call
\* has returned), and with all providers succeeding the answer is the reply
\* of the last stage, unmodified.
C6_FixedChains ==
    \A c \in Callers :
        mode[c] \in {"B", "C", "D"}
        => /\ Len(calls[c]) <= Len(Order(mode[c]))
           /\ Providers(c) = SubSeq(Order(mode[c]), 1, Len(calls[c]))
           /\ \A k \in 1..(Len(calls[c]) - 1) : calls[c][k].result = "ok"
           /\ (pc[c] = "done" /\ AllOk(c))
                => /\ Len(calls[c]) = Len(Order(mode[c]))
                   /\ resp[c] = [status |-> 200,
                                 body |-> Out(id[c], Len(Order(mode[c])))]

C6_Witness ==
    \E c, d \in Callers :
        /\ mode[c] = "B" /\ pc[c] = "done" /\ resp[c].status = 200
        /\ Len(calls[c]) = 4
        /\ mode[d] \in {"C", "D"} /\ pc[d] = "done" /\ resp[d].status = 200

\* C7: when the provider call of a stage fails, the request makes no later
\* call, has called no provider twice, and ends with one failure response
\* whose message carries the error's description and none of the replies of
\* the earlier stages.
C7_FailureAborts ==
    \A c \in Callers : \A k \in 1..Len(calls[c]) :
        calls[c][k].result \in Errors
        => /\ k = Len(calls[c])
           /\ \A i, j \in 1..Len(calls[c]) :
                 calls[c][i].provider = calls[c][j].provider => i = j
           /\ pc[c] = "done"
           /\ resp[c].status = 500
           /\ Contains(resp[c].body, <<calls[c][k].result>>)
           /\ \A j \in 1..Len(calls[c]) : ~Contains(resp[c].body, Out(id[c], j))

\* A failure at a stage that follows a successful one
C7_Witness ==
    \E c \in Callers :
        /\ Len(calls[c]) >= 2
        /\ calls[c][Len(calls[c])].result \in Errors
        /\ pc[c] = "done"

InputStages(b) ==
    CASE b = "plan" -> {1, 2, 3}
      [] b = "report" -> {1}
      [] b = "B" -> {1, 2}
      [] b = "C" -> {1, 2}
      [] OTHER -> {1}

\* Earlier stages whose reply the prompt of stage k carries, per pipeline
EmbeddedStages(b, k) ==
    IF b = "plan" THEN 1..(k - 1) ELSE {k - 1} \ {0}

C9_ContinueConsumesLastWrite ==
    [][\A c \in Callers :
        (pc[c] = "a_arg" /\ Moved(c))
        => /\ branch'[c] = "report"
           /\ writes # <<>>
           /\ passed_plan'[c] = Some(Out(writes[Len(writes)], 3))]_vars

\* Cross-talk: caller c wrote a plan, the other caller overwrote it, and c's
\* finalize request sent the other caller's plan to the synthesis provider
C9_Witness ==
    \E c \in Callers :
        /\ branch[c] = "report" /\ Len(calls[c]) >= 1
        /\ Len(writes) = 2
        /\ issuedBy[writes[1]] = c
        /\ issuedBy[writes[2]] # c
        /\ passed_plan[c] = Some(Out(writes[2], 3))
        /\ Contains(calls[c][1].prompt, Out(writes[2], 3))

\* C10: the store always holds the synthesis reply of the request whose write
\* step executed last, which need not be the request that arrived last, and
\* a plan request returns its own synthesis reply whatever the store holds.
C10_LastWriterWins ==
    /\ last_plan_for_a =
          IF writes = <<>> THEN None ELSE Some(Out(writes[Len(writes)], 3))
    /\ \A c \in Callers :
          (branch[c] = "plan" /\ pc[c] = "done" /\ resp[c].status = 200)
          => resp[c].body = Out(id[c], 3)

\* Lost update: both plan requests completed, the one that arrived last wrote
\* first, and it returned a plan the store does not hold
C10_Witness ==
    \E c, d \in Callers :
        /\ branch[c] = "plan" /\ pc[c] = "done" /\ resp[c].status = 200
        /\ branch[d] = "plan" /\ pc[d] = "done" /\ resp[d].status = 200
        /\ id[c] < id[d]
        /\ last_plan_for_a = Some(resp[c].body)
        /\ last_plan_for_a # Some(resp[d].body)

\* Keyword kw stands in text from position i on, character by character
OccursAt(s, kw, i) ==
    /\ i + Len(kw) - 1 <= Len(s)
    /\ \A j \in 1..Len(kw) : s[i + j - 1] = kw[j]

KeywordOccurs(s) ==
    \E n \in 1..Len(REPORT_KEYWORDS) : \E i \in 1..Len(s) :
        OccursAt(s, REPORT_KEYWORDS[n], i)

\* C11: the classifier sends a mode-A request to the finalize branch exactly
\* when some keyword of REPORT_KEYWORDS occurs as a contiguous run of
\* characters anywhere in the text, also inside a longer word; the decision
\* is the same whatever the plan store holds, and taking it changes no state
\* but the request's own position.
C11_KeywordSubstring ==
    [][\A c \in Callers :
        (pc[c] = "chat" /\ Moved(c) /\ mode[c] = "A")
        => /\ (pc'[c] = "a_guard") <=> KeywordOccurs(text[c])
           /\ (pc'[c] = "run" /\ branch'[c] = "plan") <=> ~KeywordOccurs(text[c])
           /\ is_report_request(text[c]) <=> KeywordOccurs(text[c])
           /\ last_plan_for_a' = last_plan_for_a
           /\ text' = text /\ calls' = calls /\ writes' = writes]_vars

\* A keyword inside a longer run of characters, classified while the store
\* holds a plan
C11_Witness ==
    \E c \in Callers :
        /\ pc[c] = "a_guard"
        /\ text[c] = <<"x", "bo", "go", "seo">>
        /\ last_plan_for_a # None

Min(a, b) == IF a < b THEN a ELSE b

\* C12: two essay-mode requests with the same input, run against providers
\* that are functions of their prompt, send the same prompts stage by stage,
\* get the same replies and return the same answer, whatever ran in between
\* and whatever the plan store held during either run.
C12_EssayRepeatable ==
    \A c, d \in Callers :
        (mode[c] = "B" /\ mode[d] = "B" /\ text[c] = text[d])
        => /\ \A k \in 1..Min(Len(calls[c]), Len(calls[d])) :
                 /\ calls[c][k].provider = calls[d][k].provider
                 /\ calls[c][k].prompt = calls[d][k].prompt
           /\ \A k \in 1..Min(Len(replies[c]), Len(replies[d])) :
                 replies[c][k] = replies[d][k]
           /\ (pc[c] = "done" /\ pc[d] = "done" /\ AllOk(c) /\ AllOk(d))
                => /\ resp[c] = resp[d]
                   /\ resp[c].status = 200

\* Two completed essay runs on the same input with a plan run that wrote the
\* store between them
C12_Witness ==
    \E c, d \in Callers :
        /\ c # d
        /\ mode[c] = "B" /\ pc[c] = "done" /\ resp[c].status = 200
        /\ mode[d] = "B" /\ pc[d] = "done" /\ resp[d].status = 200
        /\ text[c] = text[d]
        /\ id[d] = id[c] + 2
        /\ writes = <<id[c] + 1>>

\* C13: a request whose mode is outside ModeType is rejected when it is
\* received: it ends at once with a validation failure (422), no handler is
\* selected for it (not the research handler of the final else either), it
\* makes no provider call and its arrival leaves the plan store as it was.
C13_UnknownModeRejected ==
    [][\A c \in Callers :
        mode'[c] \notin ModeType
        => /\ pc'[c] = "done"
           /\ resp'[c] = [status |-> 422, body |-> <<"mode">>]
           /\ branch'[c] = "none"
           /\ calls'[c] = <<>>
           /\ replies'[c] = <<>>
           /\ (id'[c] # id[c] => /\ last_plan_for_a' = last_plan_for_a
                                 /\ writes' = writes)]_vars

\* A rejected request while the store holds a plan
C13_Witness ==
    \E c \in Callers :
        /\ mode[c] = "E" /\ pc[c] = "done" /\ resp[c].status = 422
        /\ last_plan_for_a # None

\* C14: a request none of whose provider calls hangs for ever gets its
\* response; a request has a response exactly when it has ended, after at
\* most 4 provider calls; while a call is outstanding the request has no
\* response, no answer and has not written the store; and whatever a request
\* waits for, every other request in flight can take its next step, so that
\* the first sentence holds for it too.
C14_ResponseUnlessHung ==
    \A c \in Callers :
        /\ ([]<>(pc[c] # "wait")) => (InFlight(c) ~> (pc[c] = "done"))
        /\ [](Len(calls[c]) <= 4)
        /\ []((pc[c] = "done") <=> (resp[c].status # 0))
        /\ [](pc[c] = "wait"
                => /\ resp[c] = NoResp
                   /\ answer[c] = None
                   /\ \A i \in 1..Len(writes) : writes[i] # id[c])
        /\ [](InFlight(c) => ENABLED Step(c))

\* A request completed all four calls of the essay pipeline after another
\* request, received before it, began a wait that still lasts
C14_Witness ==
    \E c, d \in Callers :
        /\ pc[c] = "wait"
        /\ id[d] > id[c]
        /\ pc[d] = "done" /\ resp[d].status = 200 /\ Len(calls[d]) = 4

\* C15: in every pipeline the prompt of the first stage embeds the user
\* input (and, in the continue pipeline, the stored plan), and the prompt of
\* every later stage embeds the reply of the stage just before it.
C15_ChainOfStages ==
    \A c \in Callers : \A k \in 1..Len(calls[c]) :
        IF k = 1
        THEN /\ Contains(calls[c][k].prompt, text[c])
             /\ branch[c] = "report"
                   => /\ passed_plan[c] # None
                      /\ Contains(calls[c][k].prompt, passed_plan[c].val)
        ELSE Contains(calls[c][k].prompt, Out(id[c], k - 1))

\* The two shortest pipelines at their last stage
C15_Witness ==
    \E c, d \in Callers :
        /\ branch[c] = "report" /\ Len(calls[c]) = 2
        /\ branch[d] = "D" /\ Len(calls[d]) = 2

\* C16: under every interleaving the store is not Empty at the second read
\* (line 666) of a request that passed the Empty check (line 656), so the
\* continue handler is never given an Empty plan and never formats "None"
\* into a prompt.
C16_ContinueNeverEmpty ==
    \A c \in Callers :
        /\ pc[c] = "a_arg" => last_plan_for_a # None
        /\ branch[c] = "report"
              => /\ passed_plan[c] # None
                 /\ \A k \in 1..Len(calls[c]) :
                       ~Contains(calls[c][k].prompt, <<"None">>)

\* A continue run given a plan that a request received after it wrote
C16_Witness ==
    \E c \in Callers :
        /\ branch[c] = "report" /\ Len(calls[c]) >= 1
        /\ \E i \in 1..Len(writes) :
              /\ writes[i] > id[c]
              /\ passed_plan[c] = Some(Out(writes[i], 3))

\* C17: a mode-A request changes the store only in its write step (line
\* 670), which it reaches only with all three calls of the plan pipeline
\* succeeded; so a plan run that fails at any stage, and a continue run that
\* fails, leave the store as it was and never appear among the writers.
C17_FailureLeavesStore ==
    [][\A c \in Callers :
        (mode[c] = "A" /\ InFlight(c) /\ Moved(c))
        => /\ pc[c] # "a_write"
                => /\ last_plan_for_a' = last_plan_for_a
                   /\ writes' = writes
           /\ pc[c] = "a_write"
                => /\ branch[c] = "plan"
                   /\ Len(calls[c]) = 3
                   /\ AllOk(c)
           /\ resp'[c].status = 500
                => /\ last_plan_for_a' = last_plan_for_a
                   /\ \A i \in 1..Len(writes') : writes'[i] # id[c]]_vars

\* A plan run that failed at its third stage while the store held a plan
C17_Witness ==
    \E c \in Callers :
        /\ branch[c] = "plan" /\ pc[c] = "done" /\ resp[c].status = 500
        /\ Len(calls[c]) = 3
        /\ last_plan_for_a # None

\* C18: the store is Empty or holds the third (synthesis) reply of a request
\* that executed the write step; it never holds the guidance message, and of
\* the replies of the requests at hand it holds none but the third reply of
\* a plan run: no background or ideas text, no reply of a continue run or of
\* a mode B, C or D run, no answer of such a run.
C18_StoreHoldsOnlyPlans ==
    /\ last_plan_for_a # Some(GUIDANCE)
    /\ last_plan_for_a # None
          => \E i \in 1..Len(writes) : last_plan_for_a = Some(Out(writes[i], 3))
    /\ \A c \in Callers :
          /\ \A k \in 1..Len(replies[c]) :
                last_plan_for_a = Some(replies[c][k])
                    => /\ branch[c] = "plan"
                       /\ k = 3
                       /\ Providers(c) = <<"call_perplexity", "call_gpt",
                                           "call_gemini">>
          /\ (resp[c].status = 200 /\ last_plan_for_a = Some(resp[c].body))
                => branch[c] = "plan"

\* The store holds a plan while an essay run has all four replies and a
\* continue run has answered
C18_Witness ==
    \E c, d \in Callers :
        /\ mode[c] = "B" /\ Len(replies[c]) = 4
        /\ branch[d] = "report" /\ pc[d] = "done" /\ resp[d].status = 200
        /\ last_plan_for_a # None

====
